---- MODULE Spec2Model ----
(***************************************************************************)
(* Lexiscan-Lite: the trial orchestrator (js/game.js, GameEngine) and the  *)
(* metrics aggregator (js/data.js, DataManager) as one state machine.      *)
(*                                                                         *)
(* Conventions                                                             *)
(*  - A nullable JavaScript value is a sequence of length at most one:     *)
(*    NULL is <<>> and a present value v is <<v>>.                         *)
(*  - A JavaScript number that results from a division is an exact         *)
(*    rational [n |-> numerator, d |-> denominator] in lowest terms; the   *)
(*    square root of a rational that is not a perfect square is kept as    *)
(*    the surd [sqrt |-> rational].                                        *)
(*  - One action is one run-to-completion turn of the browser event loop:  *)
(*    a click handler, a timer callback, or the continuation of an await.  *)
(*  - Buttons can be clicked only on the screen that switchScreen made     *)
(*    active, and an option button only while it is in the grid.           *)
(***************************************************************************)
EXTENDS Integers, Sequences, FiniteSets, TLC

\* ------------------------------------------------------------------ bounds
\* Date.now() is read from a clock that stops advancing at MaxClock.
MaxClock == 1
\* Longest catalog (number of tasks) a session is run with.
MaxCatalogLen == 2
\* Direct use of the DataManager: most tasks opened and closed, and most
\* trial records in the session.
MaxApiTasks == 1
MaxApiTrials == 1
\* Responses recorded in one task when only the confusion map is looked at.
MaxTallyTrials == 5
\* Arrays passed to mean, median and stdDev: longest array and largest
\* element of those enumerated in full.
MaxSampleCount == 3
MaxSampleValue == 3

\* ----------------------------------------------------------------- helpers
NULL == <<>>

Range(s) == {s[i] : i \in 1..Len(s)}

RECURSIVE GCD(_, _)
GCD(a, b) == IF b = 0 THEN a ELSE GCD(b, a % b)

Abs(x) == IF x < 0 THEN -x ELSE x

\* The values a JavaScript division by zero gives.
NaN == [nan |-> TRUE]
Infinity(sign) == [inf |-> sign]

\* The number n/d in lowest terms with a positive denominator; 0/0 is NaN
\* and n/0 is Infinity with the sign of n.
Rat(n, d) ==
    IF d = 0
    THEN IF n = 0 THEN NaN ELSE Infinity(IF n < 0 THEN -1 ELSE 1)
    ELSE LET g == GCD(Abs(n), Abs(d))
             s == IF d < 0 THEN -1 ELSE 1
         IN  [n |-> (s * n) \div g, d |-> (s * d) \div g]

IsRat(x) == DOMAIN x = {"n", "d"}
IsSurd(x) == DOMAIN x = {"sqrt"}

\* The largest k in lo..hi with k * k <= n (lo * lo <= n), by bisection.
RECURSIVE FloorSqrt(_, _, _)
FloorSqrt(n, lo, hi) ==
    IF lo >= hi THEN lo
    ELSE LET mid == (lo + hi + 1) \div 2
         IN  IF mid <= n \div mid
             THEN FloorSqrt(n, mid, hi)
             ELSE FloorSqrt(n, lo, mid - 1)

ISqrt(n) == FloorSqrt(n, 0, n)
IsSquare(n) == ISqrt(n) * ISqrt(n) = n

\* Math.sqrt of a non-negative rational.
Sqrt(r) ==
    IF IsSquare(r.n) /\ IsSquare(r.d)
    THEN Rat(ISqrt(r.n), ISqrt(r.d))
    ELSE [sqrt |-> r]

\* x / m for x a rational or a surd and m a rational that is not negative.
Divide(x, m) ==
    IF IsRat(x)
    THEN IF m.n = 0
         THEN Rat(x.n, 0)
         ELSE Rat(x.n * m.d, x.d * m.n)
    ELSE IF m.n = 0
         THEN Infinity(1)
         ELSE Sqrt(Rat(x.sqrt.n * m.d * m.d, x.sqrt.d * m.n * m.n))

\* x * 100
Times100(x) ==
    IF IsRat(x) THEN Rat(x.n * 100, x.d)
    ELSE IF IsSurd(x) THEN Sqrt(Rat(x.sqrt.n * 10000, x.sqrt.d))
    ELSE x

RECURSIVE SumSeq(_)
SumSeq(s) == IF s = <<>> THEN 0 ELSE Head(s) + SumSeq(Tail(s))

RECURSIVE Flatten(_)
Flatten(ss) == IF ss = <<>> THEN <<>> ELSE Head(ss) \o Flatten(Tail(ss))

\* ------------------------------------------------- task catalog (tasks.js)
TASK_TYPES ==
    [ BASELINE_LITERACY     |-> "baseline_literacy",
      PHONEME_GRAPHEME      |-> "phoneme_grapheme",
      VISUAL_DISCRIMINATION |-> "visual_discrimination",
      VISUAL_MASKING        |-> "visual_masking",
      LEXICAL_DECISION      |-> "lexical_decision",
      ATTENTION_STABILITY   |-> "attention_stability" ]

\* Entries of TASKS with their trial lists and each trial's distractor list
\* cut to a prefix.  A task without
\* an isWarmup property has isWarmup = FALSE (!undefined is true).
TaskWarmup ==
    [ id |-> "warmup", type |-> TASK_TYPES.VISUAL_DISCRIMINATION, isWarmup |-> TRUE,
      trialConfig |-> [timeout |-> 5000],
      trials |-> << [target |-> "A", distractors |-> <<"X">>] >> ]

TaskBaseline ==
    [ id |-> "baseline_literacy", type |-> TASK_TYPES.BASELINE_LITERACY, isWarmup |-> FALSE,
      trialConfig |-> [timeout |-> 4000],
      trials |-> << [target |-> "the", distractors |-> <<"teh">>],
                    [target |-> "and", distractors |-> <<"nad">>],
                    [target |-> "is",  distractors |-> <<"si">>] >> ]

TaskPhoneme ==
    [ id |-> "phoneme_grapheme", type |-> TASK_TYPES.PHONEME_GRAPHEME, isWarmup |-> FALSE,
      trialConfig |-> [timeout |-> 3000],
      trials |-> << [target |-> "b", phoneme |-> "buh", distractors |-> <<"d">>] >> ]

TaskMasking ==
    [ id |-> "visual_masking", type |-> TASK_TYPES.VISUAL_MASKING, isWarmup |-> FALSE,
      trialConfig |-> [timeout |-> 3000, flashDuration |-> 400, maskDuration |-> 100],
      trials |-> << [target |-> "b", distractors |-> <<"d">>] >> ]

TaskLexical ==
    [ id |-> "lexical_decision", type |-> TASK_TYPES.LEXICAL_DECISION, isWarmup |-> FALSE,
      trialConfig |-> [timeout |-> 3000],
      trials |-> << [stimulus |-> "cat",  isReal |-> TRUE],
                    [stimulus |-> "plim", isReal |-> FALSE] >> ]

\* visual_confusable is presented the way the warmup is; a session is not
\* run with it, its trials are used where responses are tallied.
TaskVisual ==
    [ id |-> "visual_confusable", type |-> TASK_TYPES.VISUAL_DISCRIMINATION, isWarmup |-> FALSE,
      trialConfig |-> [timeout |-> 3000],
      trials |-> << [target |-> "b", distractors |-> <<"d">>],
                    [target |-> "d", distractors |-> <<"b">>],
                    [target |-> "p", distractors |-> <<"q">>] >> ]

\* TASKS in the order of the source, one task of each way of presenting.
TASKS == <<TaskWarmup, TaskBaseline, TaskPhoneme, TaskMasking, TaskLexical>>

\* The catalogs a session is run with: TASKS with all but at most
\* MaxCatalogLen of its tasks left out, the empty catalog included.
RECURSIVE SubSeqs(_)
SubSeqs(s) ==
    IF s = <<>> THEN {<<>>}
    ELSE LET rest == SubSeqs(Tail(s))
         IN  rest \cup {<<Head(s)>> \o r : r \in rest}

Catalogs == {c \in SubSeqs(TASKS) : Len(c) <= MaxCatalogLen}

\* ------------------------------------------------ DataManager (js/data.js)
\* The operations take the DataManager's fields d and the value t that
\* Date.now() returns during the call, and give the fields after the call
\* together with the returned value.
RetUndefined == [type |-> "undefined"]
RetNull == [type |-> "null"]
RetObject(v) == [type |-> "object", value |-> v]
\* typeof-like tag of a returned value: "undefined", "null" or "object".
RetType(r) == r.type

\* Number(x) for a nullable number: null coerces to 0.
ToNumber(x) == IF x = NULL THEN 0 ELSE x[1]

NewDataManager(t) ==
    [ sessionData |-> [ startTime |-> t,
                        endTime |-> NULL,
                        tasks |-> <<>>,
                        confusionMatrix |-> <<>>,
                        fontComparison |-> [standard |-> NULL, dyslexia |-> NULL],
                        \* properties exportJSON adds; NULL while absent
                        attentionStability |-> NULL,
                        repeatedConfusions |-> NULL ],
      currentTask |-> NULL,
      itemStartTime |-> NULL ]

startTask(d, taskId, taskType, t) ==
    [d EXCEPT !.currentTask =
        << [ taskId |-> taskId,
             taskType |-> taskType,
             font |-> "standard",
             startTime |-> t,
             endTime |-> NULL,
             trials |-> <<>>,
             summary |-> NULL ] >>]

startTrial(d, target, distractors, trialIndex, t) ==
    [ data |-> [d EXCEPT !.itemStartTime = <<t>>],
      ret  |-> [ trialIndex |-> trialIndex,
                 target |-> target,
                 distractors |-> distractors,
                 presentedAt |-> t ] ]

\* confusionMatrix is the object's own keys in insertion order, each with
\* its count.
ConfusionKey(target, selected) == target \o "->" \o selected

IncrementConfusion(cm, key) ==
    IF \E i \in 1..Len(cm) : cm[i].key = key
    THEN [i \in 1..Len(cm) |->
            IF cm[i].key = key THEN [cm[i] EXCEPT !.count = @ + 1] ELSE cm[i]]
    ELSE Append(cm, [key |-> key, count |-> 1])

\* Variant: the confusion matrix is updated before the open task is looked at.
recordResponse_LateGuard(d, trialData, selected, wasTimeout, t) ==
    LET reactionTime == IF wasTimeout THEN NULL ELSE <<t - ToNumber(d.itemStartTime)>>
        isCorrect == selected = <<trialData.target>>
        trial == [ selected |-> selected,
                   isCorrect |-> isCorrect,
                   reactionTime |-> reactionTime,
                   wasTimeout |-> wasTimeout,
                   respondedAt |-> t ] @@ trialData
        counted == IF ~isCorrect /\ selected # NULL
                   THEN [d EXCEPT !.sessionData.confusionMatrix =
                            IncrementConfusion(@, ConfusionKey(trialData.target, selected[1]))]
                   ELSE d
    IN  IF d.currentTask = NULL
        THEN [data |-> counted, ret |-> RetUndefined]
        ELSE [ data |-> [counted EXCEPT !.currentTask[1].trials = Append(@, trial)],
               ret |-> RetObject(trial) ]

\* Variant: a reaction time of 0 is stored as null
\* ((Date.now() - this.itemStartTime) || null).
recordResponse_FalsyRT(d, trialData, selected, wasTimeout, t) ==
    IF d.currentTask = NULL
    THEN [data |-> d, ret |-> RetUndefined]
    ELSE
      LET elapsed == t - ToNumber(d.itemStartTime)
          reactionTime == IF wasTimeout \/ elapsed = 0 THEN NULL ELSE <<elapsed>>
          isCorrect == selected = <<trialData.target>>
          trial == [ selected |-> selected,
                     isCorrect |-> isCorrect,
                     reactionTime |-> reactionTime,
                     wasTimeout |-> wasTimeout,
                     respondedAt |-> t ] @@ trialData
          pushed == [d EXCEPT !.currentTask[1].trials = Append(@, trial)]
      IN  [ data |->
              IF ~isCorrect /\ selected # NULL
              THEN [pushed EXCEPT !.sessionData.confusionMatrix =
                        IncrementConfusion(@, ConfusionKey(trialData.target, selected[1]))]
              ELSE pushed,
            ret |-> RetObject(trial) ]

\* Variant: every incorrect response is counted, a timeout too
\* (if (!isCorrect)); the key of a null selection ends in "null".
recordResponse_CountTimeouts(d, trialData, selected, wasTimeout, t) ==
    IF d.currentTask = NULL
    THEN [data |-> d, ret |-> RetUndefined]
    ELSE
      LET reactionTime == IF wasTimeout THEN NULL ELSE <<t - ToNumber(d.itemStartTime)>>
          isCorrect == selected = <<trialData.target>>
          trial == [ selected |-> selected,
                     isCorrect |-> isCorrect,
                     reactionTime |-> reactionTime,
                     wasTimeout |-> wasTimeout,
                     respondedAt |-> t ] @@ trialData
          pushed == [d EXCEPT !.currentTask[1].trials = Append(@, trial)]
      IN  [ data |->
              IF ~isCorrect
              THEN [pushed EXCEPT !.sessionData.confusionMatrix =
                        IncrementConfusion(@, ConfusionKey(trialData.target,
                            IF selected = NULL THEN "null" ELSE selected[1]))]
              ELSE pushed,
            ret |-> RetObject(trial) ]

recordResponse(d, trialData, selected, wasTimeout, t) ==
    IF d.currentTask = NULL
    THEN [data |-> d, ret |-> RetUndefined]
    ELSE
      LET reactionTime == IF wasTimeout THEN NULL ELSE <<t - ToNumber(d.itemStartTime)>>
          isCorrect == selected = <<trialData.target>>
          trial == [ selected |-> selected,
                     isCorrect |-> isCorrect,
                     reactionTime |-> reactionTime,
                     wasTimeout |-> wasTimeout,
                     respondedAt |-> t ] @@ trialData
          pushed == [d EXCEPT !.currentTask[1].trials = Append(@, trial)]
      IN  [ data |->
              IF ~isCorrect /\ selected # NULL
              THEN [pushed EXCEPT !.sessionData.confusionMatrix =
                        IncrementConfusion(@, ConfusionKey(trialData.target, selected[1]))]
              ELSE pushed,
            ret |-> RetObject(trial) ]

\* mean(arr): 0 for an empty array.
mean(arr) == IF Len(arr) > 0 THEN Rat(SumSeq(arr), Len(arr)) ELSE Rat(0, 1)

\* [...arr].sort((a, b) => a - b)
RECURSIVE SortAsc(_)
SortAsc(arr) ==
    IF arr = <<>> THEN <<>>
    ELSE LET m == CHOOSE i \in 1..Len(arr) : \A j \in 1..Len(arr) : arr[i] <= arr[j]
         IN  <<arr[m]>> \o SortAsc(SubSeq(arr, 1, m - 1) \o SubSeq(arr, m + 1, Len(arr)))

\* Variant: the middle of the array as given, without sorting.
median_NoSort(arr) ==
    IF Len(arr) = 0 THEN [arr |-> arr, ret |-> NULL]
    ELSE LET mid == Len(arr) \div 2
         IN  [ arr |-> arr,
               ret |-> IF Len(arr) % 2 # 0
                       THEN <<Rat(arr[mid + 1], 1)>>
                       ELSE <<Rat(arr[mid] + arr[mid + 1], 2)>> ]

\* median(arr): arr is the caller's array after the call (the sort is
\* done on a copy), ret the returned value.
median(arr) ==
    IF Len(arr) = 0 THEN [arr |-> arr, ret |-> NULL]
    ELSE LET sorted == SortAsc(arr)
             mid == Len(sorted) \div 2      \* 0-based index
         IN  [ arr |-> arr,
               ret |-> IF Len(sorted) % 2 # 0
                       THEN <<Rat(sorted[mid + 1], 1)>>
                       ELSE <<Rat(sorted[mid] + sorted[mid + 1], 2)>> ]

\* Variant: the sample standard deviation (divides by n - 1).
stdDev_Sample(arr) ==
    IF Len(arr) < 2 THEN NULL
    ELSE LET n == Len(arr)
             S == SumSeq(arr)
             squareDiffs == [i \in 1..n |-> (n * arr[i] - S) * (n * arr[i] - S)]
         IN  <<Sqrt(Rat(SumSeq(squareDiffs), n * n * (n - 1)))>>

\* stdDev(arr): with m = S/n, mean of (v - m)^2 is sum((n*v - S)^2) / n^3.
stdDev(arr) ==
    IF Len(arr) < 2 THEN NULL
    ELSE LET n == Len(arr)
             S == SumSeq(arr)
             squareDiffs == [i \in 1..n |-> (n * arr[i] - S) * (n * arr[i] - S)]
         IN  <<Sqrt(Rat(SumSeq(squareDiffs), n * n * n))>>

\* Variant: the completed trials are taken to be the correct ones.
taskSummary_CompletedIsCorrect(trials, startTime, endTime) ==
    LET NotTimeout(tr) == ~tr.wasTimeout
        IsCorrect(tr) == tr.isCorrect
        WasTimeout(tr) == tr.wasTimeout
        HasRT(tr) == tr.reactionTime # NULL
        completed == SelectSeq(trials, IsCorrect)
        correct == SelectSeq(trials, IsCorrect)
        withRT == SelectSeq(completed, HasRT)
        reactionTimes == [i \in 1..Len(withRT) |-> withRT[i].reactionTime[1]]
    IN  [ totalTrials |-> Len(trials),
          completedTrials |-> Len(completed),
          correctCount |-> Len(correct),
          accuracy |-> IF Len(completed) > 0
                       THEN Rat(Len(correct) * 100, Len(completed))
                       ELSE Rat(0, 1),
          timeouts |-> Len(SelectSeq(trials, WasTimeout)),
          meanRT |-> IF Len(reactionTimes) > 0
                     THEN <<Rat(SumSeq(reactionTimes), Len(reactionTimes))>>
                     ELSE NULL,
          medianRT |-> median(reactionTimes).ret,
          rtStdDev |-> stdDev(reactionTimes),
          duration |-> Rat(endTime - startTime, 1000) ]

\* Variant: accuracy is taken over all trials, timed-out ones included.
taskSummary_AccuracyOfTotal(trials, startTime, endTime) ==
    LET NotTimeout(tr) == ~tr.wasTimeout
        IsCorrect(tr) == tr.isCorrect
        WasTimeout(tr) == tr.wasTimeout
        HasRT(tr) == tr.reactionTime # NULL
        completed == SelectSeq(trials, NotTimeout)
        correct == SelectSeq(trials, IsCorrect)
        withRT == SelectSeq(completed, HasRT)
        reactionTimes == [i \in 1..Len(withRT) |-> withRT[i].reactionTime[1]]
    IN  [ totalTrials |-> Len(trials),
          completedTrials |-> Len(completed),
          correctCount |-> Len(correct),
          accuracy |-> IF Len(trials) > 0
                       THEN Rat(Len(correct) * 100, Len(trials))
                       ELSE Rat(0, 1),
          timeouts |-> Len(SelectSeq(trials, WasTimeout)),
          meanRT |-> IF Len(reactionTimes) > 0
                     THEN <<Rat(SumSeq(reactionTimes), Len(reactionTimes))>>
                     ELSE NULL,
          medianRT |-> median(reactionTimes).ret,
          rtStdDev |-> stdDev(reactionTimes),
          duration |-> Rat(endTime - startTime, 1000) ]

\* Variant: accuracy and meanRT are divided without looking at the divisor.
taskSummary_NoGuard(trials, startTime, endTime) ==
    LET NotTimeout(tr) == ~tr.wasTimeout
        IsCorrect(tr) == tr.isCorrect
        WasTimeout(tr) == tr.wasTimeout
        HasRT(tr) == tr.reactionTime # NULL
        completed == SelectSeq(trials, NotTimeout)
        correct == SelectSeq(trials, IsCorrect)
        withRT == SelectSeq(completed, HasRT)
        reactionTimes == [i \in 1..Len(withRT) |-> withRT[i].reactionTime[1]]
    IN  [ totalTrials |-> Len(trials),
          completedTrials |-> Len(completed),
          correctCount |-> Len(correct),
          accuracy |-> Rat(Len(correct) * 100, Len(completed)),
          timeouts |-> Len(SelectSeq(trials, WasTimeout)),
          meanRT |-> <<Rat(SumSeq(reactionTimes), Len(reactionTimes))>>,
          medianRT |-> median(reactionTimes).ret,
          rtStdDev |-> stdDev(reactionTimes),
          duration |-> Rat(endTime - startTime, 1000) ]

\* The summary endTask computes from the task's trials.
taskSummary(trials, startTime, endTime) ==
    LET NotTimeout(tr) == ~tr.wasTimeout
        IsCorrect(tr) == tr.isCorrect
        WasTimeout(tr) == tr.wasTimeout
        HasRT(tr) == tr.reactionTime # NULL
        completed == SelectSeq(trials, NotTimeout)
        correct == SelectSeq(trials, IsCorrect)
        withRT == SelectSeq(completed, HasRT)
        reactionTimes == [i \in 1..Len(withRT) |-> withRT[i].reactionTime[1]]
    IN  [ totalTrials |-> Len(trials),
          completedTrials |-> Len(completed),
          correctCount |-> Len(correct),
          accuracy |-> IF Len(completed) > 0
                       THEN Rat(Len(correct) * 100, Len(completed))
                       ELSE Rat(0, 1),
          timeouts |-> Len(SelectSeq(trials, WasTimeout)),
          meanRT |-> IF Len(reactionTimes) > 0
                     THEN <<Rat(SumSeq(reactionTimes), Len(reactionTimes))>>
                     ELSE NULL,
          medianRT |-> median(reactionTimes).ret,
          rtStdDev |-> stdDev(reactionTimes),
          duration |-> Rat(endTime - startTime, 1000) ]

\* Variant: the open-task slot is not cleared.
endTask_NoClear(d, t) ==
    IF d.currentTask = NULL
    THEN [data |-> d, ret |-> RetNull]
    ELSE
      LET task == d.currentTask[1]
          completedTask == [task EXCEPT !.endTime = <<t>>,
                                        !.summary = <<taskSummary(task.trials, task.startTime, t)>>]
      IN  [ data |-> [d EXCEPT !.sessionData.tasks = Append(@, completedTask),
                               !.currentTask = <<completedTask>>],
            ret |-> RetObject(completedTask) ]

endTask(d, t) ==
    IF d.currentTask = NULL
    THEN [data |-> d, ret |-> RetNull]
    ELSE
      LET task == d.currentTask[1]
          completedTask == [task EXCEPT !.endTime = <<t>>,
                                        !.summary = <<taskSummary(task.trials, task.startTime, t)>>]
      IN  [ data |-> [d EXCEPT !.sessionData.tasks = Append(@, completedTask),
                               !.currentTask = NULL],
            ret |-> RetObject(completedTask) ]

\* null coerced to a number by an arithmetic operator.
NullAsZero(x) == IF x = NULL THEN Rat(0, 1) ELSE x[1]

\* calculateAttentionStability(): over the reaction times of the session's
\* tasks.  Reaction times are differences of a clock that does not go
\* back, so their mean is not negative.
calculateAttentionStability(d) ==
    LET HasRT(tr) == tr.reactionTime # NULL
        tasks == d.sessionData.tasks
        rtsOf(task) == LET withRT == SelectSeq(task.trials, HasRT)
                       IN  [i \in 1..Len(withRT) |-> withRT[i].reactionTime[1]]
        allRTs == Flatten([k \in 1..Len(tasks) |-> rtsOf(tasks[k])])
    IN  [ overallStdDev |-> stdDev(allRTs),
          coefficientOfVariation |->
              IF Len(allRTs) > 0
              THEN <<Times100(Divide(NullAsZero(stdDev(allRTs)), mean(allRTs)))>>
              ELSE NULL ]

\* entries.sort((a, b) => b[1] - a[1]): by count, largest first; the sort
\* is stable, so entries of equal count keep their order.
RECURSIVE SortByCountDesc(_)
SortByCountDesc(entries) ==
    IF entries = <<>> THEN <<>>
    ELSE LET m == CHOOSE i \in 1..Len(entries) :
                      /\ \A j \in 1..Len(entries) : entries[i].count >= entries[j].count
                      /\ \A j \in 1..(i - 1) : entries[j].count < entries[i].count
         IN  <<entries[m]>> \o
             SortByCountDesc(SubSeq(entries, 1, m - 1) \o SubSeq(entries, m + 1, Len(entries)))

\* Variant: every confusion is reported, not only the repeated ones.
getRepeatedConfusions_All(d) ==
    SortByCountDesc(d.sessionData.confusionMatrix)

\* getRepeatedConfusions(): Object.entries gives the keys in insertion
\* order (no key is an array index: each contains "->").
getRepeatedConfusions(d) ==
    LET Repeated(e) == e.count >= 2
    IN  SortByCountDesc(SelectSeq(d.sessionData.confusionMatrix, Repeated))

\* JSON.stringify of a number: NaN and Infinity are written as null.
StringifyNumber(x) ==
    IF x = NULL THEN NULL
    ELSE IF IsRat(x[1]) \/ IsSurd(x[1]) THEN x ELSE NULL

\* JSON.parse(JSON.stringify(summary)): every number is written as text and
\* read back; the fields that hold a number are nullable in the document.
StringifySummary(s) ==
    [ totalTrials     |-> s.totalTrials,
      completedTrials |-> s.completedTrials,
      correctCount    |-> s.correctCount,
      timeouts        |-> s.timeouts,
      accuracy        |-> StringifyNumber(<<s.accuracy>>),
      meanRT          |-> StringifyNumber(s.meanRT),
      medianRT        |-> StringifyNumber(s.medianRT),
      rtStdDev        |-> StringifyNumber(s.rtStdDev),
      duration        |-> StringifyNumber(<<s.duration>>) ]

\* JSON.parse(JSON.stringify(sessionData, null, 2))
StringifySession(session) ==
    [session EXCEPT
        !.tasks = [k \in 1..Len(@) |->
                     [@[k] EXCEPT !.summary = <<StringifySummary(@[1])>>]],
        !.attentionStability[1].overallStdDev = StringifyNumber(@),
        !.attentionStability[1].coefficientOfVariation = StringifyNumber(@)]

\* Variant: the summaries of the closed tasks are computed again at export.
exportJSON_Resummarise(d, t) ==
    LET tasks == d.sessionData.tasks
        again == [k \in 1..Len(tasks) |->
                    [tasks[k] EXCEPT !.summary =
                        <<taskSummary(tasks[k].trials, tasks[k].startTime, t)>>]]
        session == [d.sessionData EXCEPT
                        !.endTime = <<t>>,
                        !.tasks = again,
                        !.attentionStability = <<calculateAttentionStability(d)>>,
                        !.repeatedConfusions = <<getRepeatedConfusions(d)>>]
    IN  [ data |-> [d EXCEPT !.sessionData = session],
          ret  |-> StringifySession(session) ]

\* Variant: the accuracy of a summary is written with one decimal, as the
\* CSV export writes it.
exportJSON_Rounded(d, t) ==
    LET session == [d.sessionData EXCEPT
                        !.endTime = <<t>>,
                        !.attentionStability = <<calculateAttentionStability(d)>>,
                        !.repeatedConfusions = <<getRepeatedConfusions(d)>>]
        toFixed1(x) == IF IsRat(x) THEN Rat((20 * x.n + x.d) \div (2 * x.d), 10) ELSE x
        rounded == [session EXCEPT
                        !.tasks = [k \in 1..Len(@) |->
                            [@[k] EXCEPT !.summary[1].accuracy = toFixed1(@)]]]
    IN  [ data |-> [d EXCEPT !.sessionData = session],
          ret  |-> StringifySession(rounded) ]

\* exportJSON(): ret is the value the returned text parses to.
exportJSON(d, t) ==
    LET session == [d.sessionData EXCEPT
                        !.endTime = <<t>>,
                        !.attentionStability = <<calculateAttentionStability(d)>>,
                        !.repeatedConfusions = <<getRepeatedConfusions(d)>>]
    IN  [ data |-> [d EXCEPT !.sessionData = session],
          ret  |-> StringifySession(session) ]

\* exportCSV(): its effect on the DataManager's fields.
exportCSV(d, t) ==
    [ data |-> [d EXCEPT !.sessionData.endTime = <<t>>] ]

\* ------------------------------------------------ GameEngine (js/game.js)
VARIABLES
    catalog,            \* TASKS, the ordered task definitions of this run
    state,              \* this.state
    screen,             \* the screen switchScreen made active
    currentTaskIndex,   \* this.currentTaskIndex (0-based)
    currentTask,        \* this.currentTask: NULL or <<task definition>>
    currentTrialIndex,  \* this.currentTrialIndex (0-based)
    currentTrialData,   \* this.currentTrialData: NULL or <<trial context>>
    trialTimeout,       \* this.trialTimeout: NULL or <<timer id>>
    inputLocked,        \* this.inputLocked
    grid,               \* the data-values of the option buttons in gridContainer
    timers,             \* ids of the deadline timers that are set and have not fired
    pend,               \* the suspended step of the trial loop, "none" if there is none
    now,                \* the value Date.now() returns
    data,               \* this.data, the DataManager's fields
    ret,                \* RetType of what the last direct DataManager call returned
    lastEvent,          \* the last event delivered to the engine and its outcome
    samples,            \* the array a caller passes to mean, median and stdDev
    result              \* the last call of a function that only returns a value

vars == << catalog, state, screen, currentTaskIndex, currentTask, currentTrialIndex,
           currentTrialData, trialTimeout, inputLocked, grid, timers, pend, now,
           data, ret, lastEvent, samples, result >>

engineVars == << state, screen, currentTaskIndex, currentTask, currentTrialIndex,
                 currentTrialData, trialTimeout, inputLocked, grid, timers, pend >>

STATES ==
    [ IDLE |-> "idle", INSTRUCTIONS |-> "instructions", RUNNING |-> "running",
      TRIAL_STIMULUS |-> "trial_stimulus", TRIAL_RESPONSE |-> "trial_response",
      TRIAL_TRANSITION |-> "trial_transition", TASK_COMPLETE |-> "task_complete",
      FINISHED |-> "finished" ]

\* kind: which event; outcome: what the handler did with it; selected: the
\* value that came with it (NULL if none).
Event(kind, outcome, selected) == [kind |-> kind, outcome |-> outcome, selected |-> selected]

\* fn: the function called; ret: what it returned.
Call(fn, returned) == [fn |-> fn, ret |-> returned]

\* constructor() of GameEngine, on the landing screen of a freshly loaded page.
EngineInit ==
    /\ state = STATES.IDLE
    /\ screen = "landing"
    /\ currentTaskIndex = 0
    /\ currentTask = NULL
    /\ currentTrialIndex = 0
    /\ currentTrialData = NULL
    /\ trialTimeout = NULL
    /\ inputLocked = FALSE
    /\ grid = {}
    /\ timers = {}
    /\ pend = "none"
    /\ now = 0
    /\ data = NewDataManager(0)
    /\ ret = RetType(RetUndefined)
    /\ lastEvent = Event("none", "handled", NULL)
    /\ result = Call("none", NULL)

Init ==
    /\ samples = <<>>
    /\ catalog \in Catalogs
    /\ EngineInit

\* Variant: the handle is dropped and the timer it names is left pending.
clearTrialTimeout_HandleOnly ==
    /\ timers' = timers
    /\ trialTimeout' = NULL

\* clearTrialTimeout(): cancels the timer the handle names, if any.
clearTrialTimeout ==
    /\ timers' = timers \ Range(trialTimeout)
    /\ trialTimeout' = NULL

\* startTrialTimeout(ms) for trial ti of the current task; the timer id
\* that setTimeout returns is named after the trial it is set for.  The
\* delay ms is not counted against the clock: a timer that is set can fire
\* at any later turn of the event loop, until it is cleared.
startTrialTimeout(ti) ==
    LET id == [task |-> currentTaskIndex, trial |-> ti]
    IN  /\ timers' = (timers \ Range(trialTimeout)) \cup {id}
        /\ trialTimeout' = <<id>>

\* finish()
finish ==
    /\ state' = STATES.FINISHED
    /\ screen' = "results"

\* showInstructions() with this.currentTaskIndex = idx.
showInstructions(idx) ==
    IF idx >= Len(catalog)
    THEN /\ finish
         /\ UNCHANGED currentTask
    ELSE /\ currentTask' = <<catalog[idx + 1]>>
         /\ state' = STATES.INSTRUCTIONS
         /\ screen' = "instructions"

\* Variant: the task is not closed in the DataManager.
completeTask_NoEndTask(d) ==
    /\ clearTrialTimeout
    /\ data' = d
    /\ currentTaskIndex' = currentTaskIndex + 1
    /\ showInstructions(currentTaskIndex + 1)
    /\ pend' = "none"
    /\ UNCHANGED <<inputLocked, grid, currentTrialData>>

\* Variant: the task is closed in the DataManager only when another task
\* follows it.
completeTask_SkipsLast(d) ==
    /\ clearTrialTimeout
    /\ data' = IF ~currentTask[1].isWarmup /\ currentTaskIndex + 1 < Len(catalog)
               THEN endTask(d, now).data
               ELSE d
    /\ currentTaskIndex' = currentTaskIndex + 1
    /\ showInstructions(currentTaskIndex + 1)
    /\ pend' = "none"
    /\ UNCHANGED <<inputLocked, grid, currentTrialData>>

\* Variant: the task index advances by two.
completeTask_SkipsNext(d) ==
    /\ clearTrialTimeout
    /\ data' = IF ~currentTask[1].isWarmup THEN endTask(d, now).data ELSE d
    /\ currentTaskIndex' = currentTaskIndex + 2
    /\ showInstructions(currentTaskIndex + 2)
    /\ pend' = "none"
    /\ UNCHANGED <<inputLocked, grid, currentTrialData>>

\* completeTask() with the DataManager in state d.
completeTask(d) ==
    /\ clearTrialTimeout
    /\ data' = IF ~currentTask[1].isWarmup THEN endTask(d, now).data ELSE d
    /\ currentTaskIndex' = currentTaskIndex + 1
    /\ showInstructions(currentTaskIndex + 1)
    /\ pend' = "none"
    /\ UNCHANGED <<inputLocked, grid, currentTrialData>>

\* Variant: input is unlocked without a deadline timer being started.
OpenWindow_NoTimer(d, target, distractors, extra, options, ti) ==
    LET st == startTrial(d, target, distractors, ti, now)
    IN  /\ data' = st.data
        /\ currentTrialData' = <<extra @@ st.ret>>
        /\ grid' = Range(options)
        /\ inputLocked' = FALSE
        /\ UNCHANGED <<timers, trialTimeout>>
        /\ pend' = "none"

\* The common tail of the four present functions: startTrial, render the
\* option buttons, unlock input, start the deadline timer.
OpenWindow(d, target, distractors, extra, options, ti) ==
    LET st == startTrial(d, target, distractors, ti, now)
    IN  /\ data' = st.data
        /\ currentTrialData' = <<extra @@ st.ret>>
        /\ grid' = Range(options)
        /\ inputLocked' = FALSE
        /\ startTrialTimeout(ti)
        /\ pend' = "none"

\* shuffleArray(array) reorders a copy.  No handler reads the position of a
\* button, so the grid keeps the values only and every order is the same
\* grid.
shuffleArray(array) == array

EmptyRecord == [x \in {} |-> x]

runStandardTrial(d, trial, ti) ==
    OpenWindow(d, trial.target, trial.distractors, EmptyRecord,
               shuffleArray(<<trial.target>> \o trial.distractors), ti)

runLexicalDecisionTrial(d, trial, ti) ==
    LET targetValue == IF trial.isReal THEN "YES" ELSE "NO"
    IN  OpenWindow(d, targetValue, <<IF trial.isReal THEN "NO" ELSE "YES">>,
                   [stimulus |-> trial.stimulus, isRealWord |-> trial.isReal],
                   <<"YES", "NO">>, ti)

\* Variant: a phoneme-grapheme trial opens its timing window when the
\* utterance is handed to the synthesiser, without awaiting its end.
runTrial_NoAwaitSpeech(d, ti, st, sc, renderFails) ==
    IF ti >= Len(currentTask[1].trials)
    THEN completeTask(d)
    ELSE
      LET task == currentTask[1]
          trial == task.trials[ti + 1]
      IN  /\ state' = st
          /\ screen' = sc
          /\ UNCHANGED <<currentTaskIndex, currentTask>>
          /\ IF renderFails
             THEN /\ inputLocked' = TRUE
                  /\ pend' = "none"
                  /\ data' = d
                  /\ UNCHANGED <<grid, currentTrialData, trialTimeout, timers>>
             ELSE CASE task.type = TASK_TYPES.LEXICAL_DECISION ->
                         runLexicalDecisionTrial(d, trial, ti)
                    [] task.type = TASK_TYPES.VISUAL_MASKING ->
                         /\ inputLocked' = TRUE
                         /\ grid' = {}
                         /\ pend' = "flash"
                         /\ data' = d
                         /\ UNCHANGED <<currentTrialData, trialTimeout, timers>>
                    [] OTHER ->
                         runStandardTrial(d, trial, ti)

\* runTrial() with the DataManager in state d, this.currentTrialIndex = ti,
\* entered with this.state = st and the active screen sc.  renderFails: the
\* first rendering call (clearGameArea) throws, which rejects the promise
\* of the async function.
runTrial(d, ti, st, sc, renderFails) ==
    IF ti >= Len(currentTask[1].trials)
    THEN completeTask(d)
    ELSE
      LET task == currentTask[1]
          trial == task.trials[ti + 1]
      IN  /\ state' = st
          /\ screen' = sc
          /\ UNCHANGED <<currentTaskIndex, currentTask>>
          /\ IF renderFails
             THEN /\ inputLocked' = TRUE
                  /\ pend' = "none"
                  /\ data' = d
                  /\ UNCHANGED <<grid, currentTrialData, trialTimeout, timers>>
             ELSE CASE task.type = TASK_TYPES.LEXICAL_DECISION ->
                         runLexicalDecisionTrial(d, trial, ti)
                    [] task.type = TASK_TYPES.VISUAL_MASKING ->
                         \* runMaskingTrial up to its first await
                         /\ inputLocked' = TRUE
                         /\ grid' = {}
                         /\ pend' = "flash"
                         /\ data' = d
                         /\ UNCHANGED <<currentTrialData, trialTimeout, timers>>
                    [] task.type = TASK_TYPES.PHONEME_GRAPHEME ->
                         \* runPhonemeGraphemeTrial up to await audio.speak(...)
                         /\ inputLocked' = TRUE
                         /\ grid' = {}
                         /\ pend' = "speech"
                         /\ data' = d
                         /\ UNCHANGED <<currentTrialData, trialTimeout, timers>>
                    [] OTHER ->
                         runStandardTrial(d, trial, ti)

\* transitionToNextTrial(): schedules the 200 ms callback.
transitionToNextTrial == pend' = "transition"

\* Variant: no check of inputLocked.
handleResponse_NoLock(selected) ==
    /\ lastEvent' = Event("click", IF inputLocked THEN "discarded" ELSE "handled", <<selected>>)
    /\ inputLocked' = TRUE
    /\ clearTrialTimeout
    /\ data' = IF ~currentTask[1].isWarmup
               THEN recordResponse(data, currentTrialData[1], <<selected>>, FALSE, now).data
               ELSE data
    /\ transitionToNextTrial
    /\ UNCHANGED <<state, screen, currentTaskIndex, currentTask, currentTrialIndex,
                   currentTrialData, grid>>

\* Variant: the deadline timer is left running.
handleResponse_NoClear(selected) ==
    IF inputLocked
    THEN /\ lastEvent' = Event("click", "discarded", <<selected>>)
         /\ UNCHANGED <<engineVars, data>>
    ELSE /\ lastEvent' = Event("click", "handled", <<selected>>)
         /\ inputLocked' = TRUE
         /\ data' = IF ~currentTask[1].isWarmup
                    THEN recordResponse(data, currentTrialData[1], <<selected>>, FALSE, now).data
                    ELSE data
         /\ transitionToNextTrial
         /\ UNCHANGED <<state, screen, currentTaskIndex, currentTask, currentTrialIndex,
                        currentTrialData, grid, trialTimeout, timers>>

\* handleResponse(selected, btnElement)
handleResponse(selected) ==
    IF inputLocked
    THEN /\ lastEvent' = Event("click", "discarded", <<selected>>)
         /\ UNCHANGED <<engineVars, data>>
    ELSE /\ lastEvent' = Event("click", "handled", <<selected>>)
         /\ inputLocked' = TRUE
         /\ clearTrialTimeout
         /\ data' = IF ~currentTask[1].isWarmup
                    THEN recordResponse(data, currentTrialData[1], <<selected>>, FALSE, now).data
                    ELSE data
         /\ transitionToNextTrial
         /\ UNCHANGED <<state, screen, currentTaskIndex, currentTask, currentTrialIndex,
                        currentTrialData, grid>>

\* Variant: the guard looks at the trial context instead of inputLocked.
handleTimeout_NoLock(firedTimers) ==
    /\ timers' = timers \ firedTimers
    /\ IF currentTrialData = NULL
       THEN /\ lastEvent' = Event("timeout", "discarded", NULL)
            /\ UNCHANGED <<state, screen, currentTaskIndex, currentTask, currentTrialIndex,
                           currentTrialData, trialTimeout, inputLocked, grid, pend, data>>
       ELSE /\ lastEvent' = Event("timeout", IF inputLocked THEN "discarded" ELSE "handled", NULL)
            /\ inputLocked' = TRUE
            /\ data' = IF ~currentTask[1].isWarmup
                       THEN recordResponse(data, currentTrialData[1], NULL, TRUE, now).data
                       ELSE data
            /\ transitionToNextTrial
            /\ UNCHANGED <<state, screen, currentTaskIndex, currentTask, currentTrialIndex,
                           currentTrialData, trialTimeout, grid>>

\* Variant: the timeout is recorded without the wasTimeout argument
\* (recordResponse(this.currentTrialData, null)), which defaults to false.
handleTimeout_NoFlag(firedTimers) ==
    /\ timers' = timers \ firedTimers
    /\ IF inputLocked
       THEN /\ lastEvent' = Event("timeout", "discarded", NULL)
            /\ UNCHANGED <<state, screen, currentTaskIndex, currentTask, currentTrialIndex,
                           currentTrialData, trialTimeout, inputLocked, grid, pend, data>>
       ELSE /\ lastEvent' = Event("timeout", "handled", NULL)
            /\ inputLocked' = TRUE
            /\ data' = IF ~currentTask[1].isWarmup
                       THEN recordResponse(data, currentTrialData[1], NULL, FALSE, now).data
                       ELSE data
            /\ transitionToNextTrial
            /\ UNCHANGED <<state, screen, currentTaskIndex, currentTask, currentTrialIndex,
                           currentTrialData, trialTimeout, grid>>

\* handleTimeout(); firedTimers: the timer whose callback this is, if any.
handleTimeout(firedTimers) ==
    /\ timers' = timers \ firedTimers
    /\ IF inputLocked
       THEN /\ lastEvent' = Event("timeout", "discarded", NULL)
            /\ UNCHANGED <<state, screen, currentTaskIndex, currentTask, currentTrialIndex,
                           currentTrialData, trialTimeout, inputLocked, grid, pend, data>>
       ELSE /\ lastEvent' = Event("timeout", "handled", NULL)
            /\ inputLocked' = TRUE
            /\ data' = IF ~currentTask[1].isWarmup
                       THEN recordResponse(data, currentTrialData[1], NULL, TRUE, now).data
                       ELSE data
            /\ transitionToNextTrial
            /\ UNCHANGED <<state, screen, currentTaskIndex, currentTask, currentTrialIndex,
                           currentTrialData, trialTimeout, grid>>

\* ----------------------------------------------------------- event loop
\* btn-start clicked: start()
ClickStart ==
    /\ screen = "landing"
    /\ currentTaskIndex' = 0
    /\ showInstructions(0)
    /\ lastEvent' = Event("start", "handled", NULL)
    /\ UNCHANGED <<catalog, currentTrialIndex, currentTrialData, trialTimeout, inputLocked,
                   grid, timers, pend, now, data, ret, samples, result>>

\* Variant: the task is opened in the DataManager whether or not it is a warmup.
ClickContinue_NoWarmupCheck(renderFails) ==
    /\ screen = "instructions"
    /\ renderFails => Len(currentTask[1].trials) > 0
    /\ currentTrialIndex' = 0
    /\ runTrial(startTask(data, currentTask[1].id, currentTask[1].type, now),
                0, STATES.RUNNING, "game", renderFails)
    /\ lastEvent' = Event("continue", IF renderFails THEN "threw" ELSE "handled", NULL)
    /\ UNCHANGED <<catalog, now, ret, samples, result>>

\* btn-continue clicked: startTask()
ClickContinue(renderFails) ==
    /\ screen = "instructions"
    /\ renderFails => Len(currentTask[1].trials) > 0
    /\ currentTrialIndex' = 0
    /\ runTrial(IF ~currentTask[1].isWarmup
                THEN startTask(data, currentTask[1].id, currentTask[1].type, now)
                ELSE data,
                0, STATES.RUNNING, "game", renderFails)
    /\ lastEvent' = Event("continue", IF renderFails THEN "threw" ELSE "handled", NULL)
    /\ UNCHANGED <<catalog, now, ret, samples, result>>

\* The speech utterance signals onend or onerror (AudioManager.speak
\* resolves its promise on either, and on nothing else):
\* runPhonemeGraphemeTrial resumes after its await.
SpeechSignal ==
    /\ pend = "speech"
    /\ LET trial == currentTask[1].trials[currentTrialIndex + 1]
       IN  runStandardTrial(data, trial, currentTrialIndex)
    /\ lastEvent' = Event("speech", "handled", NULL)
    /\ UNCHANGED <<catalog, state, screen, currentTaskIndex, currentTask, currentTrialIndex,
                   now, ret, samples, result>>

\* Variant: the timing window is opened when the flash wait elapses, with no
\* mask wait.
FlashElapsed_NoMask ==
    /\ pend = "flash"
    /\ LET trial == currentTask[1].trials[currentTrialIndex + 1]
       IN  runStandardTrial(data, trial, currentTrialIndex)
    /\ lastEvent' = Event("flash", "handled", NULL)
    /\ UNCHANGED <<catalog, state, screen, currentTaskIndex, currentTask, currentTrialIndex,
                   now, ret, samples, result>>

\* delay(flashDuration) elapses: runMaskingTrial masks the stimulus and
\* awaits delay(maskDuration).
FlashElapsed ==
    /\ pend = "flash"
    /\ pend' = "mask"
    /\ lastEvent' = Event("flash", "handled", NULL)
    /\ UNCHANGED <<catalog, state, screen, currentTaskIndex, currentTask, currentTrialIndex,
                   currentTrialData, trialTimeout, inputLocked, grid, timers, now, data, ret,
                   samples, result>>

\* delay(maskDuration) elapses: runMaskingTrial opens the timing window.
MaskElapsed ==
    /\ pend = "mask"
    /\ LET trial == currentTask[1].trials[currentTrialIndex + 1]
       IN  runStandardTrial(data, trial, currentTrialIndex)
    /\ lastEvent' = Event("mask", "handled", NULL)
    /\ UNCHANGED <<catalog, state, screen, currentTaskIndex, currentTask, currentTrialIndex,
                   now, ret, samples, result>>

\* An option button of the grid is clicked.
ClickOption ==
    /\ screen = "game"
    /\ \E opt \in grid : handleResponse(opt)
    /\ UNCHANGED <<catalog, now, ret, samples, result>>

\* The deadline timer fires.
TimeoutFires ==
    /\ \E id \in timers : handleTimeout({id})
    /\ UNCHANGED <<catalog, now, ret, samples, result>>

\* The 200 ms timer of transitionToNextTrial fires.
TransitionElapsed(renderFails) ==
    /\ pend = "transition"
    /\ renderFails => currentTrialIndex + 1 < Len(currentTask[1].trials)
    /\ currentTrialIndex' = currentTrialIndex + 1
    /\ runTrial(data, currentTrialIndex + 1, state, screen, renderFails)
    /\ lastEvent' = Event("transition", IF renderFails THEN "threw" ELSE "handled", NULL)
    /\ UNCHANGED <<catalog, now, ret, samples, result>>

\* Time passes.
Tick ==
    /\ now < MaxClock
    /\ now' = now + 1
    /\ UNCHANGED <<catalog, engineVars, data, ret, lastEvent, samples, result>>

Next ==
    \/ ClickStart
    \/ ClickContinue(FALSE)
    \/ SpeechSignal
    \/ FlashElapsed
    \/ MaskElapsed
    \/ ClickOption
    \/ TimeoutFires
    \/ TransitionElapsed(FALSE)
    \/ Tick

Spec == Init /\ [][Next]_vars

\* ------------------------------------------------------------ the exports
\* The same event loop with the two download buttons of the results screen.
\* btn-download-json clicked: downloadJSON()
ClickDownloadJSON ==
    /\ screen = "results"
    /\ data' = exportJSON(data, now).data
    /\ lastEvent' = Event("downloadJSON", "handled", NULL)
    /\ UNCHANGED <<catalog, engineVars, now, ret, samples, result>>

\* btn-download-csv clicked: downloadCSV()
ClickDownloadCSV ==
    /\ screen = "results"
    /\ data' = exportCSV(data, now).data
    /\ lastEvent' = Event("downloadCSV", "handled", NULL)
    /\ UNCHANGED <<catalog, engineVars, now, ret, samples, result>>

NextExport ==
    \/ Next
    \/ ClickDownloadJSON
    \/ ClickDownloadCSV

SpecExport == Init /\ [][NextExport]_vars

\* --------------------------------------------------------- adapter faults
\* The same event loop when a rendering call can throw.
NextFault ==
    \/ Next
    \/ ClickContinue(TRUE)
    \/ TransitionElapsed(TRUE)

SpecFault == Init /\ [][NextFault]_vars

\* ------------------------------------------------- handlers called directly
\* In the engine alone the deadline timer is pending only while input is
\* unlocked, so its callback never finds input locked.  This event loop adds
\* that delivery.
\* handleTimeout() reaches the engine while input is locked, from a caller
\* other than the pending deadline timer.
CallHandleTimeout ==
    /\ state = STATES.RUNNING
    /\ inputLocked
    /\ handleTimeout({})
    /\ UNCHANGED <<catalog, now, ret, samples, result>>

NextDirect ==
    \/ Next
    \/ CallHandleTimeout

SpecDirect == Init /\ [][NextDirect]_vars

\* ------------------------------------------------------------- scheduling
\* The browser runs every timer callback that is due and the subject
\* presses the start and continue buttons.  Nothing obliges the speech
\* engine to signal the end of an utterance, nor the subject to pick an
\* option.
Fairness ==
    /\ WF_vars(ClickStart)
    /\ WF_vars(ClickContinue(FALSE))
    /\ WF_vars(FlashElapsed)
    /\ WF_vars(MaskElapsed)
    /\ WF_vars(TimeoutFires)
    /\ WF_vars(TransitionElapsed(FALSE))

FairSpec == Init /\ [][Next]_vars /\ Fairness

\* ------------------------------------------- the DataManager used directly
\* A caller other than the engine calls the DataManager's operations in any
\* order.  currentTrialData is the trial context that caller holds.
ApiTask == TaskMasking

ApiTrials == {TaskMasking.trials[1]}

ApiRecordCount(d) ==
    LET closed == [i \in 1..Len(d.sessionData.tasks) |-> Len(d.sessionData.tasks[i].trials)]
    IN  SumSeq(closed) + (IF d.currentTask = NULL THEN 0 ELSE Len(d.currentTask[1].trials))

ApiConfusionTotal(d) ==
    LET cm == d.sessionData.confusionMatrix
    IN  SumSeq([i \in 1..Len(cm) |-> cm[i].count])

ApiStartTask ==
    /\ Len(data.sessionData.tasks) < MaxApiTasks
    /\ data' = startTask(data, ApiTask.id, ApiTask.type, now)
    /\ ret' = RetType(RetUndefined)
    /\ lastEvent' = Event("startTask", "handled", NULL)
    /\ UNCHANGED <<catalog, engineVars, now, samples, result>>

ApiStartTrial ==
    /\ \E trial \in ApiTrials, keep \in BOOLEAN :
          LET idx == IF data.currentTask = NULL THEN 0 ELSE Len(data.currentTask[1].trials)
              st == startTrial(data, trial.target, trial.distractors, idx, now)
          IN  /\ data' = st.data
              /\ ret' = RetType(RetObject(st.ret))
              /\ currentTrialData' = IF keep \/ currentTrialData = NULL
                                     THEN <<st.ret>> ELSE currentTrialData
    /\ lastEvent' = Event("startTrial", "handled", NULL)
    /\ UNCHANGED <<catalog, state, screen, currentTaskIndex, currentTask, currentTrialIndex,
                   trialTimeout, inputLocked, grid, timers, pend, now, samples, result>>

ApiRecordResponse ==
    /\ currentTrialData # NULL
    /\ ApiRecordCount(data) < MaxApiTrials
    /\ ApiConfusionTotal(data) < MaxApiTrials
    /\ \E selected \in {NULL} \cup {<<currentTrialData[1].target>>}
                         \cup {<<o>> : o \in Range(currentTrialData[1].distractors)},
          wasTimeout \in BOOLEAN :
          LET r == recordResponse(data, currentTrialData[1], selected, wasTimeout, now)
          IN  /\ data' = r.data
              /\ ret' = RetType(r.ret)
              /\ lastEvent' = Event("recordResponse",
                                    IF wasTimeout THEN "timeout" ELSE "response", selected)
    /\ UNCHANGED <<catalog, engineVars, now, samples, result>>

ApiEndTask ==
    /\ LET r == endTask(data, now)
       IN  /\ data' = r.data
           /\ ret' = RetType(r.ret)
    /\ lastEvent' = Event("endTask", "handled", NULL)
    /\ UNCHANGED <<catalog, engineVars, now, samples, result>>

InitApi ==
    /\ catalog = <<>>
    /\ samples = <<>>
    /\ EngineInit

NextApi ==
    \/ ApiStartTask
    \/ ApiStartTrial
    \/ ApiRecordResponse
    \/ ApiEndTask
    \/ Tick

SpecApi == InitApi /\ [][NextApi]_vars

\* ------------------------------------------------- responses being tallied
\* One task is opened and responses to trials of visual_confusable are
\* recorded in it, in any order and number up to MaxTallyTrials; the
\* repeated confusions are asked for at any moment.  The clock stands still.
TallyTrials == Range(TaskVisual.trials)

TallyStartTask ==
    /\ data.currentTask = NULL
    /\ data.sessionData.tasks = <<>>
    /\ data' = startTask(data, TaskVisual.id, TaskVisual.type, now)
    /\ ret' = RetType(RetUndefined)
    /\ lastEvent' = Event("startTask", "handled", NULL)
    /\ UNCHANGED <<catalog, engineVars, now, samples, result>>

\* A trial is presented and answered with one of its options.
TallyRecord ==
    /\ data.currentTask # NULL
    /\ Len(data.currentTask[1].trials) < MaxTallyTrials
    /\ \E trial \in TallyTrials :
       \E selected \in {trial.target} \cup Range(trial.distractors) :
          LET st == startTrial(data, trial.target, trial.distractors,
                               Len(data.currentTask[1].trials), now)
              r == recordResponse(st.data, st.ret, <<selected>>, FALSE, now)
          IN  /\ data' = r.data
              /\ ret' = RetType(r.ret)
              /\ lastEvent' = Event("recordResponse", "response", <<selected>>)
    /\ UNCHANGED <<catalog, engineVars, now, samples, result>>

TallyRepeated ==
    /\ result' = Call("getRepeatedConfusions", getRepeatedConfusions(data))
    /\ lastEvent' = Event("getRepeatedConfusions", "handled", NULL)
    /\ UNCHANGED <<catalog, engineVars, now, data, ret, samples>>

NextTally ==
    \/ TallyStartTask
    \/ TallyRecord
    \/ TallyRepeated

SpecTally == InitApi /\ [][NextTally]_vars

\* --------------------------------------------------- the utility functions
\* mean, median and stdDev applied to an array.  The arrays are all those
\* of at most MaxSampleCount elements of 0..MaxSampleValue, and four more.
RECURSIVE ArraysOf(_, _)
ArraysOf(values, n) ==
    IF n = 0 THEN {<<>>}
    ELSE LET shorter == ArraysOf(values, n - 1)
         IN  shorter \cup {Append(a, v) : a \in {s \in shorter : Len(s) = n - 1}, v \in values}

SampleArrays ==
    ArraysOf(0..MaxSampleValue, MaxSampleCount)
        \cup { <<5>>, <<100>>, <<100, 200>>, <<2, 4, 4, 4, 5, 5, 7, 9>> }

InitUtil ==
    /\ catalog = <<>>
    /\ samples \in SampleArrays
    /\ EngineInit

CallMean ==
    /\ result' = Call("mean", <<mean(samples)>>)
    /\ UNCHANGED <<catalog, engineVars, now, data, ret, lastEvent, samples>>

CallMedian ==
    /\ LET r == median(samples)
       IN  /\ samples' = r.arr
           /\ result' = Call("median", r.ret)
    /\ UNCHANGED <<catalog, engineVars, now, data, ret, lastEvent>>

CallStdDev ==
    /\ result' = Call("stdDev", stdDev(samples))
    /\ UNCHANGED <<catalog, engineVars, now, data, ret, lastEvent, samples>>

NextUtil ==
    \/ CallMean
    \/ CallMedian
    \/ CallStdDev

SpecUtil == InitUtil /\ [][NextUtil]_vars

\* ------------------------------------------------ a session being exported
\* At most MaxApiTasks tasks of baseline_literacy are opened, their trials
\* presented and answered in order, and closed; the clock advances while a
\* trial waits for its answer.  The session is exported as JSON once, at any
\* moment, and result holds the document the exported text parses to.
Exported == result.fn = "exportJSON"

RoundTripStartTask ==
    /\ ~Exported
    /\ data.currentTask = NULL
    /\ Len(data.sessionData.tasks) < MaxApiTasks
    /\ data' = startTask(data, TaskBaseline.id, TaskBaseline.type, now)
    /\ ret' = RetType(RetUndefined)
    /\ lastEvent' = Event("startTask", "handled", NULL)
    /\ UNCHANGED <<catalog, engineVars, now, samples, result>>

RoundTripStartTrial ==
    /\ ~Exported
    /\ data.currentTask # NULL
    /\ currentTrialData = NULL
    /\ Len(data.currentTask[1].trials) < Len(TaskBaseline.trials)
    /\ LET idx == Len(data.currentTask[1].trials)
           trial == TaskBaseline.trials[idx + 1]
           st == startTrial(data, trial.target, trial.distractors, idx, now)
       IN  /\ data' = st.data
           /\ ret' = RetType(RetObject(st.ret))
           /\ currentTrialData' = <<st.ret>>
    /\ lastEvent' = Event("startTrial", "handled", NULL)
    /\ UNCHANGED <<catalog, state, screen, currentTaskIndex, currentTask, currentTrialIndex,
                   trialTimeout, inputLocked, grid, timers, pend, now, samples, result>>

\* The presented trial is answered with one of its options, or times out.
RoundTripRecord ==
    /\ ~Exported
    /\ currentTrialData # NULL
    /\ \E answer \in {<<currentTrialData[1].target>>, <<currentTrialData[1].distractors[1]>>,
                       NULL} :
          LET r == recordResponse(data, currentTrialData[1], answer, answer = NULL, now)
          IN  /\ data' = r.data
              /\ ret' = RetType(r.ret)
              /\ lastEvent' = Event("recordResponse",
                                    IF answer = NULL THEN "timeout" ELSE "response", answer)
    /\ currentTrialData' = NULL
    /\ UNCHANGED <<catalog, state, screen, currentTaskIndex, currentTask, currentTrialIndex,
                   trialTimeout, inputLocked, grid, timers, pend, now, samples, result>>

RoundTripEndTask ==
    /\ ~Exported
    /\ data.currentTask # NULL
    /\ currentTrialData = NULL
    /\ LET r == endTask(data, now)
       IN  /\ data' = r.data
           /\ ret' = RetType(r.ret)
    /\ lastEvent' = Event("endTask", "handled", NULL)
    /\ UNCHANGED <<catalog, engineVars, now, samples, result>>

RoundTripExport ==
    /\ ~Exported
    /\ LET r == exportJSON(data, now)
       IN  /\ data' = r.data
           /\ result' = Call("exportJSON", <<r.ret>>)
    /\ lastEvent' = Event("exportJSON", "handled", NULL)
    /\ UNCHANGED <<catalog, engineVars, now, ret, samples>>

RoundTripTick ==
    /\ ~Exported
    /\ currentTrialData # NULL
    /\ Tick

NextRoundTrip ==
    \/ RoundTripStartTask
    \/ RoundTripStartTrial
    \/ RoundTripRecord
    \/ RoundTripEndTask
    \/ RoundTripExport
    \/ RoundTripTick

SpecRoundTrip == InitApi /\ [][NextRoundTrip]_vars

\* ================================================================ claims
\* The trial records of the task open in the DataManager.
OpenRecords == IF data.currentTask = NULL THEN <<>> ELSE data.currentTask[1].trials

\* The engine is running a task that is scored.
RunningScored == state = STATES.RUNNING /\ currentTask # NULL /\ ~currentTask[1].isWarmup

\* The engine is at the instructions of, or running, a warmup task.
InWarmup ==
    /\ state \in {STATES.INSTRUCTIONS, STATES.RUNNING}
    /\ currentTask # NULL
    /\ currentTask[1].isWarmup

\* The catalog's definition of the task with this id.
TaskDefinition(id) == CHOOSE c \in Range(catalog) : c.id = id

\* The records are one per trial index 0 .. n-1, in that order.
OnePerTrial(recs, n) ==
    /\ Len(recs) = n
    /\ \A i \in 1..Len(recs) : recs[i].trialIndex = i - 1

\* C1: while a scored task runs, the open task holds exactly one record for
\* each trial that has ended (the trials before the current one, and the
\* current one once its response or timeout is handled) and none for a trial
\* not yet ended; a closed task holds exactly one record per trial of its
\* definition.  Never zero and never two, whatever clicks and timer firings
\* are interleaved.
C1_ExactlyOneRecordPerTrial ==
    /\ RunningScored =>
          /\ data.currentTask # NULL
          /\ OnePerTrial(OpenRecords,
                         currentTrialIndex + (IF pend = "transition" THEN 1 ELSE 0))
    /\ \A k \in 1..Len(data.sessionData.tasks) :
          LET t == data.sessionData.tasks[k]
          IN  OnePerTrial(t.trials, Len(TaskDefinition(t.taskId).trials))

\* C1 witness: a second click arrived during the transition pause of the
\* second trial of a scored task, and the task holds two records.
C1_Witness ==
    /\ RunningScored
    /\ pend = "transition"
    /\ currentTrialIndex = 1
    /\ lastEvent.kind = "click" /\ lastEvent.outcome = "discarded"
    /\ Len(OpenRecords) = 2

\* C2: a selection or a deadline firing handled while inputLocked is true
\* changes nothing: not the DataManager (trial records, confusion matrix),
\* not the trial index or the task index, not the timer handle, and it
\* neither sets a timer nor schedules a later step.
C2_LockedEventDiscarded ==
    [][ (inputLocked /\ (ClickOption \/ TimeoutFires \/ CallHandleTimeout)) =>
          /\ UNCHANGED <<data, currentTrialIndex, currentTaskIndex, currentTask,
                         currentTrialData, trialTimeout, pend, inputLocked, state, screen>>
          /\ timers' \subseteq timers
          /\ (ClickOption \/ CallHandleTimeout) => UNCHANGED timers ]_vars

\* C2 witness: handleTimeout was called during the transition pause that
\* follows a recorded response, and was discarded.
C2_Witness ==
    /\ lastEvent.kind = "timeout" /\ lastEvent.outcome = "discarded"
    /\ pend = "transition"
    /\ inputLocked
    /\ OpenRecords # <<>>

\* The step forwards exactly one response with these values for the current
\* trial to the DataManager (none if the task is a warmup).
ForwardsOne(selected, wasTimeout) ==
    IF currentTask[1].isWarmup
    THEN data' = data
    ELSE /\ data'.currentTask # NULL
         /\ data'.sessionData.tasks = data.sessionData.tasks
         /\ Len(data'.currentTask[1].trials) = Len(OpenRecords) + 1
         /\ SubSeq(data'.currentTask[1].trials, 1, Len(OpenRecords)) = OpenRecords
         /\ LET rec == data'.currentTask[1].trials[Len(OpenRecords) + 1]
            IN  /\ rec.trialIndex = currentTrialIndex
                /\ rec.selected = selected
                /\ rec.wasTimeout = wasTimeout

\* C3: while input is unlocked, the first of the two events to be handled
\* ends the trial: a click locks input, cancels the deadline timer and
\* forwards the clicked value with wasTimeout = FALSE; a deadline firing
\* locks input and forwards selected = null with wasTimeout = TRUE.  The
\* later event finds input locked and leaves the DataManager unchanged.
C3_FirstEventWins ==
    [][ /\ (~inputLocked /\ ClickOption) =>
              /\ inputLocked'
              /\ timers' = {}
              /\ pend' = "transition"
              /\ ForwardsOne(lastEvent'.selected, FALSE)
        /\ (~inputLocked /\ TimeoutFires) =>
              /\ inputLocked'
              /\ timers' = {}
              /\ pend' = "transition"
              /\ ForwardsOne(NULL, TRUE)
        /\ (inputLocked /\ (ClickOption \/ TimeoutFires)) => UNCHANGED <<data, pend>> ]_vars

\* C3 witness: the deadline fired first and recorded the timeout; the click
\* that came after it was discarded.
C3_Witness ==
    /\ RunningScored
    /\ lastEvent.kind = "click" /\ lastEvent.outcome = "discarded"
    /\ OpenRecords # <<>>
    /\ OpenRecords[Len(OpenRecords)].wasTimeout
    /\ OpenRecords[Len(OpenRecords)].selected = NULL

\* C4: when timers fire and the start and continue buttons are pressed,
\* the session reaches Finished, whether or not the subject ever selects
\* and whether or not the speech engine ever signals.
C4_SessionFinishes == <>(state = STATES.FINISHED)

\* C5: when presenting a trial throws, the trial is finalized as a forced
\* timeout: the transition to the next trial is scheduled and, for a scored
\* task, a timeout record for the trial is appended.
C5_PresentFailureIsForcedTimeout ==
    lastEvent.outcome = "threw" =>
        /\ pend = "transition"
        /\ RunningScored =>
              /\ Len(OpenRecords) = currentTrialIndex + 1
              /\ OpenRecords[Len(OpenRecords)].wasTimeout

\* C6: a warmup task never opens a task in the DataManager and, from its
\* instructions to its completion, nothing is added to the session: no
\* trial record, no confusion-matrix entry, no task; and no task of the
\* session's task list is a warmup.
C6_WarmupNotScored ==
    /\ [](InWarmup => data.currentTask = NULL)
    /\ [](\A k \in 1..Len(data.sessionData.tasks) :
              ~TaskDefinition(data.sessionData.tasks[k].taskId).isWarmup)
    /\ [][InWarmup => /\ data'.sessionData = data.sessionData
                      /\ data'.currentTask = NULL]_vars

\* C6 witness: a warmup trial ended with a wrong selection.
C6_Witness ==
    /\ InWarmup
    /\ state = STATES.RUNNING
    /\ pend = "transition"
    /\ lastEvent = Event("click", "handled", <<"X">>)
    /\ data.sessionData.confusionMatrix = <<>>

\* C7: startTask called while a task is open leaves the open task as it
\* is; in particular the trial records accumulated in it are kept.
C7_OpenWhileOpenIsNoOp ==
    [][ (data.currentTask # NULL /\ ApiStartTask) =>
            /\ data'.currentTask # NULL
            /\ data'.currentTask[1].trials = data.currentTask[1].trials ]_vars

\* C8: the DataManager has a task open only while the engine runs that very
\* scored task; the engine opens a task only when none is open, each
\* continue of a scored task opens exactly that task, and a task that stops
\* being open has been appended to the session's task list, where no task
\* id occurs twice.
C8_OneOpenTaskAtATime ==
    /\ [](data.currentTask # NULL =>
             /\ RunningScored
             /\ data.currentTask[1].taskId = currentTask[1].id
             /\ \A k \in 1..Len(data.sessionData.tasks) :
                    data.sessionData.tasks[k].taskId # currentTask[1].id)
    /\ [](\A j, k \in 1..Len(data.sessionData.tasks) :
             j # k => data.sessionData.tasks[j].taskId # data.sessionData.tasks[k].taskId)
    /\ [][ /\ ClickContinue(FALSE) => data.currentTask = NULL
           /\ (ClickContinue(FALSE) /\ ~currentTask[1].isWarmup) =>
                  /\ data'.currentTask # NULL
                  /\ data'.currentTask[1].taskId = currentTask[1].id
                  /\ data'.currentTask[1].trials = <<>>
           /\ (data.currentTask # NULL /\ data'.currentTask # data.currentTask) =>
                  \/ /\ data'.currentTask # NULL
                     /\ data'.currentTask[1].taskId = data.currentTask[1].taskId
                     /\ data'.sessionData.tasks = data.sessionData.tasks
                  \/ /\ data'.currentTask = NULL
                     /\ Len(data'.sessionData.tasks) = Len(data.sessionData.tasks) + 1
                     /\ data'.sessionData.tasks[Len(data'.sessionData.tasks)].taskId
                            = data.currentTask[1].taskId ]_vars

\* C8 witness: a second scored task is open after the first was closed.
C8_Witness ==
    /\ data.currentTask # NULL
    /\ Len(data.sessionData.tasks) = 1

\* C9: recordResponse called with no task open returns undefined and leaves
\* every field of the DataManager as it was.
C9_RecordWithoutOpenTask ==
    [][ (data.currentTask = NULL /\ ApiRecordResponse) =>
            /\ data' = data
            /\ ret' = RetType(RetUndefined) ]_vars

\* C9 witness: recordResponse was called with a wrong, non-timeout
\* selection while no task was open.
C9_Witness ==
    /\ lastEvent = Event("recordResponse", "response", <<"d">>)
    /\ data.currentTask = NULL
    /\ ret = RetType(RetUndefined)

\* C10: endTask with a task open appends that task, with its trial records,
\* once to the session's task list and clears the open-task slot; with no
\* task open it returns null and changes nothing.
C10_EndTaskOnce ==
    [][ ApiEndTask =>
          IF data.currentTask # NULL
          THEN /\ data'.currentTask = NULL
               /\ Len(data'.sessionData.tasks) = Len(data.sessionData.tasks) + 1
               /\ SubSeq(data'.sessionData.tasks, 1, Len(data.sessionData.tasks))
                      = data.sessionData.tasks
               /\ LET closed == data'.sessionData.tasks[Len(data'.sessionData.tasks)]
                  IN  /\ closed.taskId = data.currentTask[1].taskId
                      /\ closed.trials = data.currentTask[1].trials
                      /\ closed.summary # NULL
               /\ ret' = RetType(RetObject(data.currentTask[1]))
          ELSE /\ data' = data
               /\ ret' = RetType(RetNull) ]_vars

\* C10 witness: endTask was called again right after it closed a task that
\* had a record; the task is in the list once.
C10_Witness ==
    /\ lastEvent.kind = "endTask"
    /\ ret = RetType(RetNull)
    /\ Len(data.sessionData.tasks) = 1
    /\ data.sessionData.tasks[1].trials # <<>>

\* The closed tasks of the session.
ClosedTasks == data.sessionData.tasks

\* C11: a task's summary is absent while the task is open and present from
\* the step that closes it, where it is the summary of the task's records
\* at that moment; no later step (responses and timeouts of later tasks,
\* the closing of later tasks, the exports) changes a closed task: not its
\* summary, not its list of trial records.
C11_SummaryFrozenAtClose ==
    /\ [](data.currentTask # NULL => data.currentTask[1].summary = NULL)
    /\ [](\A k \in 1..Len(ClosedTasks) : ClosedTasks[k].summary # NULL)
    /\ [][ /\ Len(ClosedTasks') >= Len(ClosedTasks)
           /\ \A k \in 1..Len(ClosedTasks) : ClosedTasks'[k] = ClosedTasks[k]
           /\ Len(ClosedTasks') > Len(ClosedTasks) =>
                  /\ Len(ClosedTasks') = Len(ClosedTasks) + 1
                  /\ data.currentTask # NULL
                  /\ LET closed == ClosedTasks'[Len(ClosedTasks')]
                     IN  /\ closed.trials = data.currentTask[1].trials
                         /\ closed.summary[1].totalTrials = Len(closed.trials)
                         /\ closed.summary[1].duration
                                = Rat(now - data.currentTask[1].startTime, 1000) ]_vars

\* C11 witness: the session was exported at a later time than its first
\* task was closed, after a second task with a record was closed too.
C11_Witness ==
    /\ lastEvent.kind = "downloadJSON"
    /\ Len(ClosedTasks) = 2
    /\ ClosedTasks[2].trials # <<>>
    /\ ClosedTasks[1].endTime # data.sessionData.endTime
    /\ data.sessionData.attentionStability # NULL

\* Every trial record of the session: those of the closed tasks, then those
\* of the open task.
AllRecords == Flatten([k \in 1..Len(ClosedTasks) |-> ClosedTasks[k].trials]) \o OpenRecords

\* The number of records of recs that satisfy Test.
CountOf(recs, Test(_)) == Cardinality({i \in 1..Len(recs) : Test(recs[i])})

\* C12: in every trial record of the session, reactionTime is null exactly
\* when wasTimeout is true; a response handled at the very clock value of
\* the presentation has reactionTime 0, which is not null.
C12_NullRTIffTimeout ==
    \A i \in 1..Len(AllRecords) :
        LET rec == AllRecords[i]
        IN  /\ (rec.reactionTime = NULL) <=> rec.wasTimeout
            /\ (~rec.wasTimeout /\ rec.respondedAt = rec.presentedAt) => rec.reactionTime = <<0>>

\* C12 witness: the session holds a response recorded in the clock tick of
\* its presentation (reaction time 0) and a timeout.
C12_Witness ==
    /\ \E i \in 1..Len(AllRecords) :
           ~AllRecords[i].wasTimeout /\ AllRecords[i].reactionTime = <<0>>
    /\ \E i \in 1..Len(AllRecords) :
           AllRecords[i].wasTimeout /\ AllRecords[i].reactionTime = NULL

\* C13: in the summary of every closed task, completedTrials + timeouts =
\* totalTrials, totalTrials is the number of the task's trial records,
\* timeouts the number of those with wasTimeout and completedTrials the
\* number of those without.
C13_CompletedPlusTimeouts ==
    \A k \in 1..Len(ClosedTasks) :
        LET t == ClosedTasks[k]
            s == t.summary[1]
        IN  /\ s.completedTrials + s.timeouts = s.totalTrials
            /\ s.totalTrials = Len(t.trials)
            /\ s.timeouts = CountOf(t.trials, LAMBDA rec : rec.wasTimeout)
            /\ s.completedTrials = CountOf(t.trials, LAMBDA rec : ~rec.wasTimeout)

\* C13 witness: a closed task of three trials: one answered correctly, one
\* answered wrongly, one timed out.
C13_Witness ==
    \E k \in 1..Len(ClosedTasks) :
        LET s == ClosedTasks[k].summary[1]
        IN  s.totalTrials = 3 /\ s.timeouts = 1 /\ s.correctCount = 1

\* C14: in the summary of every closed task, accuracy is
\* correctCount / completedTrials * 100 when completedTrials > 0 and 0
\* otherwise; it lies in [0, 100]; correctCount is the number of correct
\* records and never exceeds completedTrials, because no timed-out record
\* is correct.
C14_AccuracyInRange ==
    \A k \in 1..Len(ClosedTasks) :
        LET t == ClosedTasks[k]
            s == t.summary[1]
        IN  /\ IsRat(s.accuracy)
            /\ 0 <= s.accuracy.n /\ s.accuracy.n <= 100 * s.accuracy.d
            /\ s.completedTrials > 0 =>
                   s.accuracy.n * s.completedTrials = 100 * s.correctCount * s.accuracy.d
            /\ s.completedTrials = 0 => s.accuracy = Rat(0, 1)
            /\ s.correctCount = CountOf(t.trials, LAMBDA rec : rec.isCorrect)
            /\ s.correctCount <= s.completedTrials
            /\ \A i \in 1..Len(t.trials) : t.trials[i].wasTimeout => ~t.trials[i].isCorrect

\* C14 witness: a closed task with a timeout, a correct and a wrong
\* response: accuracy is 50.
C14_Witness ==
    \E k \in 1..Len(ClosedTasks) :
        LET s == ClosedTasks[k].summary[1]
        IN  s.timeouts = 1 /\ s.completedTrials = 2 /\ s.accuracy = Rat(50, 1)

\* A summary statistic is a finite number or null: not NaN, not Infinity.
Finite(x) == x = NULL \/ IsRat(x[1]) \/ IsSurd(x[1])

\* C15: in the summary of a closed task without a completed trial (every
\* trial timed out, or there is no trial), meanRT, medianRT and rtStdDev
\* are null and accuracy is 0; and in no summary is a statistic the result
\* of a division by zero.
C15_EmptyCompletedSentinels ==
    \A k \in 1..Len(ClosedTasks) :
        LET s == ClosedTasks[k].summary[1]
        IN  /\ s.completedTrials = 0 =>
                   /\ s.meanRT = NULL
                   /\ s.medianRT = NULL
                   /\ s.rtStdDev = NULL
                   /\ s.accuracy = Rat(0, 1)
            /\ Finite(<<s.accuracy>>) /\ Finite(<<s.duration>>)
            /\ Finite(s.meanRT) /\ Finite(s.medianRT) /\ Finite(s.rtStdDev)

\* C15 witness: a closed task whose only trial timed out.
C15_Witness ==
    \E k \in 1..Len(ClosedTasks) :
        LET s == ClosedTasks[k].summary[1]
        IN  s.totalTrials = 1 /\ s.timeouts = 1 /\ s.completedTrials = 0

\* The confusion key of a record that is incorrect and not a timeout.
IsConfusion(rec) == ~rec.isCorrect /\ ~rec.wasTimeout

\* C16: the confusion map holds exactly the keys "target->selected" of the
\* incorrect non-timeout records of the session, each once, and the count
\* of a key is the number of those records: correct responses and timeouts
\* neither create nor increment an entry.
C16_ConfusionCountsIncorrect ==
    LET cm == data.sessionData.confusionMatrix
        KeyOf(rec) == ConfusionKey(rec.target, rec.selected[1])
    IN  /\ \A i, j \in 1..Len(cm) : cm[i].key = cm[j].key => i = j
        /\ \A i \in 1..Len(cm) :
               cm[i].count = CountOf(AllRecords,
                                     LAMBDA rec : IsConfusion(rec) /\ KeyOf(rec) = cm[i].key)
        /\ \A i \in 1..Len(cm) : cm[i].count >= 1
        /\ \A r \in 1..Len(AllRecords) :
               IsConfusion(AllRecords[r]) =>
                   \E i \in 1..Len(cm) : cm[i].key = KeyOf(AllRecords[r])

\* C16 witness: a wrong response, a correct response and a timeout are
\* recorded, and the confusion map has the one entry of the wrong response.
C16_Witness ==
    /\ data.sessionData.confusionMatrix = << [key |-> "the->teh", count |-> 1] >>
    /\ \E i \in 1..Len(AllRecords) : AllRecords[i].wasTimeout
    /\ \E i \in 1..Len(AllRecords) : AllRecords[i].isCorrect

\* The position of the entry with this key in the confusion map.
PositionOf(cm, key) == CHOOSE i \in 1..Len(cm) : cm[i].key = key

\* out is what the claim says of the repeated confusions of the map cm.
RepeatedOf(cm, out) ==
    /\ \A i \in 1..Len(out) :
           /\ out[i].count >= 2
           /\ \E j \in 1..Len(cm) : cm[j] = out[i]
    /\ \A j \in 1..Len(cm) :
           cm[j].count >= 2 => \E i \in 1..Len(out) : out[i] = cm[j]
    /\ \A i, j \in 1..Len(out) : out[i].key = out[j].key => i = j
    /\ \A i, j \in 1..Len(out) :
           i < j => \/ out[i].count > out[j].count
                    \/ /\ out[i].count = out[j].count
                       /\ PositionOf(cm, out[i].key) < PositionOf(cm, out[j].key)

\* C17: getRepeatedConfusions returns exactly the entries of the confusion
\* map whose count is at least 2, the larger count first and entries of
\* equal count in the order their keys entered the map; after b answered
\* with d twice and p answered with q once it returns <<("b->d", 2)>>.
C17_RepeatedConfusions ==
    lastEvent.kind = "getRepeatedConfusions" =>
        LET cm == data.sessionData.confusionMatrix
            bd == [key |-> "b->d", count |-> 2]
            pq == [key |-> "p->q", count |-> 1]
        IN  /\ result.fn = "getRepeatedConfusions"
            /\ RepeatedOf(cm, result.ret)
            /\ cm \in {<<bd, pq>>, <<pq, bd>>} => result.ret = <<bd>>

\* C17 witness: the repeated confusions were asked for after b -> d twice
\* and p -> q once, in that order of first occurrence.
C17_Witness ==
    /\ lastEvent.kind = "getRepeatedConfusions"
    /\ data.sessionData.confusionMatrix
           = << [key |-> "b->d", count |-> 2], [key |-> "p->q", count |-> 1] >>
    /\ result.ret = << [key |-> "b->d", count |-> 2] >>

\* The reaction times of the completed (not timed-out) trials of the
\* session's tasks.
PooledRTs ==
    LET done == SelectSeq(AllRecords, LAMBDA rec : ~rec.wasTimeout)
    IN  [i \in 1..Len(done) |-> done[i].reactionTime[1]]

\* C18: the coefficientOfVariation of an exported session is null when
\* there is no completed trial, when there is exactly one (stdDev
\* undefined) and when the pooled reaction times are all 0 (mean zero);
\* otherwise it is stdDev / mean * 100 of the pooled reaction times.
C18_CoefficientOfVariation ==
    data.sessionData.attentionStability # NULL =>
        LET cov == data.sessionData.attentionStability[1].coefficientOfVariation
        IN  IF Len(PooledRTs) < 2 \/ SumSeq(PooledRTs) = 0
            THEN cov = NULL
            ELSE cov = <<Times100(Divide(stdDev(PooledRTs)[1], mean(PooledRTs)))>>

\* The k-th smallest element of arr (k in 1..Len(arr)).
KthSmallest(arr, k) ==
    CHOOSE x \in Range(arr) :
        /\ Cardinality({i \in 1..Len(arr) : arr[i] < x}) < k
        /\ Cardinality({i \in 1..Len(arr) : arr[i] <= x}) >= k

\* v is what the claim says of the median of arr.
MedianOf(arr, v) ==
    LET n == Len(arr)
    IN  IF n = 0 THEN v = NULL
        ELSE IF n % 2 = 1
             THEN v = <<Rat(KthSmallest(arr, (n + 1) \div 2), 1)>>
             ELSE v = <<Rat(KthSmallest(arr, n \div 2) + KthSmallest(arr, n \div 2 + 1), 2)>>

\* C19: median returns null for an empty array, the middle element by
\* value for an odd count and the average of the two middle elements by
\* value for an even count, whatever the order of the array; it leaves the
\* array it is given as it was; median(<<100>>) = 100 and
\* median(<<100, 200>>) = 150.
C19_Median ==
    /\ [](result.fn = "median" =>
             /\ MedianOf(samples, result.ret)
             /\ samples = <<>> => result.ret = NULL
             /\ samples = <<100>> => result.ret = <<Rat(100, 1)>>
             /\ samples = <<100, 200>> => result.ret = <<Rat(150, 1)>>)
    /\ [][CallMedian => samples' = samples]_vars

\* C19 witness: the median of an array of three elements that is not in
\* ascending order was taken.
C19_Witness ==
    /\ result.fn = "median"
    /\ samples = <<2, 0, 1>>
    /\ result.ret = <<Rat(1, 1)>>

\* The square of a standard deviation (a rational or a surd).
SquareOf(v) == IF IsRat(v) THEN Rat(v.n * v.n, v.d * v.d) ELSE v.sqrt

\* The sum over all pairs (i, j) of (arr[i] - arr[j])^2, which is 2 n^2
\* times the population variance.
PairwiseSquares(arr) ==
    SumSeq([i \in 1..Len(arr) |->
              SumSeq([j \in 1..Len(arr) |-> (arr[i] - arr[j]) * (arr[i] - arr[j])])])

\* C20: stdDev returns null for fewer than two elements and otherwise the
\* population standard deviation, the non-negative number whose square is
\* the mean (over n, not n - 1) of the squared deviations from the mean;
\* stdDev(<<5>>) = null and stdDev(<<2, 4, 4, 4, 5, 5, 7, 9>>) = 2.
C20_PopulationStdDev ==
    result.fn = "stdDev" =>
        LET n == Len(samples)
        IN  /\ n < 2 => result.ret = NULL
            /\ n >= 2 =>
                   /\ result.ret # NULL
                   /\ IsRat(result.ret[1]) \/ IsSurd(result.ret[1])
                   /\ IsRat(result.ret[1]) => result.ret[1].n >= 0
                   /\ SquareOf(result.ret[1]) = Rat(PairwiseSquares(samples), 2 * n * n)
            /\ samples = <<5>> => result.ret = NULL
            /\ samples = <<2, 4, 4, 4, 5, 5, 7, 9>> => result.ret = <<Rat(2, 1)>>

\* C20 witness: stdDev of the eight samples of the example was taken.
C20_Witness ==
    /\ result.fn = "stdDev"
    /\ samples = <<2, 4, 4, 4, 5, 5, 7, 9>>
    /\ result.ret = <<Rat(2, 1)>>

\* The task's three records are a correct selection, a timeout and an
\* incorrect selection, in that order.
CorrectTimeoutIncorrect(trials) ==
    /\ Len(trials) = 3
    /\ trials[1].selected = <<trials[1].target>>
    /\ trials[2].selected = NULL
    /\ trials[3].selected # NULL /\ trials[3].selected # <<trials[3].target>>

\* C21: a scored task of three trials that the engine ran with a correct
\* selection, then a timeout, then an incorrect selection is closed with
\* totalTrials = 3, completedTrials = 2, correctCount = 1, timeouts = 1 and
\* accuracy = 50; when these are the only records of the session, the
\* confusion map has exactly one entry, with count 1, for the third trial.
C21_EndToEndScenario ==
    \A k \in 1..Len(ClosedTasks) :
        LET t == ClosedTasks[k]
            s == t.summary[1]
        IN  CorrectTimeoutIncorrect(t.trials) =>
              /\ s.totalTrials = 3
              /\ s.completedTrials = 2
              /\ s.correctCount = 1
              /\ s.timeouts = 1
              /\ s.accuracy = Rat(50, 1)
              /\ t.trials[2].wasTimeout /\ ~t.trials[1].wasTimeout /\ ~t.trials[3].wasTimeout
              /\ AllRecords = t.trials =>
                     data.sessionData.confusionMatrix =
                         << [ key |-> ConfusionKey(t.trials[3].target, t.trials[3].selected[1]),
                              count |-> 1 ] >>

\* C21 witness: baseline_literacy, the only task of the session, was closed
\* after a correct selection, a timeout and an incorrect selection.
C21_Witness ==
    /\ Len(ClosedTasks) = 1
    /\ data.currentTask = NULL
    /\ ClosedTasks[1].taskId = "baseline_literacy"
    /\ CorrectTimeoutIncorrect(ClosedTasks[1].trials)
    /\ Len(data.sessionData.confusionMatrix) = 1

\* C22: when the engine is Finished (the catalog is exhausted, at once on
\* start if it is empty) no deadline timer and no step of the trial loop is
\* pending and the DataManager has no open task; and every later step (a
\* download, the clock) leaves the engine Finished, with no open task, no
\* timer, and the same task list, trial records and confusion map.
C22_FinishedIsTerminal ==
    /\ [](state = STATES.FINISHED =>
             /\ timers = {}
             /\ trialTimeout = NULL
             /\ pend = "none"
             /\ data.currentTask = NULL
             /\ currentTaskIndex >= Len(catalog))
    /\ [][state = STATES.FINISHED =>
             /\ state' = STATES.FINISHED
             /\ data'.currentTask = NULL
             /\ data'.sessionData.tasks = data.sessionData.tasks
             /\ data'.sessionData.confusionMatrix = data.sessionData.confusionMatrix
             /\ timers' = {}
             /\ pend' = "none"]_vars

\* C22 witness: a download was handled after the session finished with one
\* closed task that has a record.
C22_Witness ==
    /\ state = STATES.FINISHED
    /\ lastEvent.kind = "downloadCSV"
    /\ Len(ClosedTasks) = 1
    /\ ClosedTasks[1].trials # <<>>

\* C23: the document a JSON export parses back to has as many tasks as the
\* session in memory at the export, as many trials in each task, and in each
\* task's summary the same nine numbers, none of them lost in the text.
C23_JSONRoundTrip ==
    lastEvent.kind = "exportJSON" =>
        LET document == result.ret[1]
            session  == data.sessionData
        IN  /\ Len(document.tasks) = Len(session.tasks)
            /\ \A k \in 1..Len(session.tasks) :
                 LET parsed == document.tasks[k].summary[1]
                     live   == session.tasks[k].summary[1]
                 IN  /\ Len(document.tasks[k].trials) = Len(session.tasks[k].trials)
                     /\ parsed.totalTrials = live.totalTrials
                     /\ parsed.completedTrials = live.completedTrials
                     /\ parsed.correctCount = live.correctCount
                     /\ parsed.timeouts = live.timeouts
                     /\ parsed.accuracy = <<live.accuracy>>
                     /\ parsed.meanRT = live.meanRT
                     /\ parsed.medianRT = live.medianRT
                     /\ parsed.rtStdDev = live.rtStdDev
                     /\ parsed.duration = <<live.duration>>

\* A JSON export of a session whose one task has three trials, an accuracy
\* of a third and a reaction-time deviation that is not a rational number.
C23_Witness ==
    /\ lastEvent.kind = "exportJSON"
    /\ Len(result.ret[1].tasks) = 1
    /\ Len(result.ret[1].tasks[1].trials) = 3
    /\ data.sessionData.tasks[1].summary[1].accuracy = Rat(100, 3)
    /\ result.ret[1].tasks[1].summary[1].accuracy = <<Rat(100, 3)>>
    /\ result.ret[1].tasks[1].summary[1].rtStdDev # NULL
    /\ IsSurd(result.ret[1].tasks[1].summary[1].rtStdDev[1])

\* The engine is running a task whose trials are presented as type.
Presenting(type) == state = STATES.RUNNING /\ currentTask # NULL /\ currentTask[1].type = type

\* The timing window of the current trial is opened at this step: the
\* presentation timestamp is the current time, the options are in the grid,
\* input is unlocked and the one pending timer is the current trial's.
WindowOpens ==
    /\ data'.itemStartTime = <<now>>
    /\ currentTrialData' # NULL
    /\ currentTrialData'[1].presentedAt = now
    /\ currentTrialData'[1].trialIndex = currentTrialIndex
    /\ grid' = {currentTrialData'[1].target} \cup Range(currentTrialData'[1].distractors)
    /\ ~inputLocked'
    /\ timers' = {[task |-> currentTaskIndex, trial |-> currentTrialIndex]}
    /\ trialTimeout' = <<[task |-> currentTaskIndex, trial |-> currentTrialIndex]>>

\* C24: in a phoneme-grapheme trial, while the utterance is pending the
\* input is locked, no deadline timer is pending, no option is in the grid
\* and no presentation timestamp is taken; the timing window opens in the
\* step that receives the utterance's completion signal and in no other, so
\* a recorded reaction time is counted from that signal.
C24_WindowOpensAfterSpeech ==
    /\ [](pend = "speech" => /\ Presenting(TASK_TYPES.PHONEME_GRAPHEME)
                             /\ inputLocked /\ timers = {} /\ grid = {})
    /\ [](Presenting(TASK_TYPES.PHONEME_GRAPHEME) /\ (~inputLocked \/ timers # {})
            => lastEvent.kind = "speech")
    /\ [][pend' = "speech" => /\ data'.itemStartTime = data.itemStartTime
                              /\ currentTrialData' = currentTrialData]_vars
    /\ [][pend = "speech" /\ pend' # "speech" =>
             lastEvent'.kind = "speech" /\ WindowOpens]_vars
    /\ [](Presenting(TASK_TYPES.PHONEME_GRAPHEME) =>
             \A i \in 1..Len(OpenRecords) :
                 OpenRecords[i].reactionTime # NULL =>
                     OpenRecords[i].reactionTime[1]
                         = OpenRecords[i].respondedAt - OpenRecords[i].presentedAt)

\* The utterance took one clock tick and the answer came in the tick of the
\* completion signal: the reaction time recorded is 0.
C24_Witness ==
    /\ Len(ClosedTasks) = 1
    /\ ClosedTasks[1].taskType = TASK_TYPES.PHONEME_GRAPHEME
    /\ ClosedTasks[1].startTime = 0
    /\ Len(ClosedTasks[1].trials) = 1
    /\ ClosedTasks[1].trials[1].presentedAt = 1
    /\ ClosedTasks[1].trials[1].reactionTime = <<0>>

\* One of the two waits of a masking trial is pending.
Masking == pend \in {"flash", "mask"}

\* C25: in a masking trial, throughout the flash wait and the mask wait the
\* input is locked, the grid has no option and no deadline timer is pending,
\* and no step taken meanwhile records a response or takes a presentation
\* timestamp; the flash wait is followed by the mask wait and by nothing
\* else, and the timing window opens in the step that ends the mask wait
\* and in no other.
C25_WindowOpensAfterMask ==
    /\ [](Masking => /\ Presenting(TASK_TYPES.VISUAL_MASKING)
                     /\ inputLocked /\ grid = {} /\ timers = {})
    /\ [](Presenting(TASK_TYPES.VISUAL_MASKING) /\ (~inputLocked \/ timers # {} \/ grid # {})
            => lastEvent.kind \in {"mask", "click", "timeout"})
    /\ [](Presenting(TASK_TYPES.VISUAL_MASKING) /\ (~inputLocked \/ timers # {})
            => lastEvent.kind = "mask")
    /\ [][Masking => /\ data'.currentTask = data.currentTask
                     /\ data'.sessionData = data.sessionData]_vars
    /\ [][Masking' => /\ data'.itemStartTime = data.itemStartTime
                      /\ currentTrialData' = currentTrialData]_vars
    /\ [][pend' = "mask" => pend \in {"flash", "mask"}]_vars
    /\ [][pend = "flash" /\ pend' # "flash" =>
             pend' = "mask" /\ lastEvent'.kind = "flash"]_vars
    /\ [][pend = "mask" /\ pend' # "mask" =>
             lastEvent'.kind = "mask" /\ WindowOpens]_vars

\* The flash wait took one clock tick: the window of the masking trial is
\* open with a presentation timestamp later than the start of the task.
C25_Witness ==
    /\ Presenting(TASK_TYPES.VISUAL_MASKING)
    /\ lastEvent.kind = "mask"
    /\ ~inputLocked
    /\ data.currentTask[1].startTime = 0
    /\ currentTrialData[1].presentedAt = 1
    /\ grid # {}
    /\ timers # {}

\* The timer startTrialTimeout sets for the current trial.
CurrentTimer == [task |-> currentTaskIndex, trial |-> currentTrialIndex]

\* C26: at most one deadline timer is pending, and a pending timer is the
\* one set for the current trial of the current task, named by the handle,
\* with the window of that trial open; a step that enters another trial or
\* another task starts with no timer pending; a timer that fires as a
\* timeout is the current trial's and the record it appends carries that
\* trial's index.
C26_OneTimerOfCurrentTrial ==
    /\ [](Cardinality(timers) <= 1)
    /\ [](timers # {} => /\ timers = {CurrentTimer}
                         /\ trialTimeout = <<CurrentTimer>>
                         /\ state = STATES.RUNNING
                         /\ ~inputLocked
                         /\ currentTrialData[1].trialIndex = currentTrialIndex)
    /\ [][(currentTrialIndex' # currentTrialIndex \/ currentTaskIndex' # currentTaskIndex)
            => (timers = {} /\ timers' \subseteq {CurrentTimer'})]_vars
    /\ [][(~inputLocked /\ inputLocked' /\ lastEvent'.kind = "timeout")
            => /\ timers = {CurrentTimer}
               /\ timers' = {}
               /\ (RunningScored =>
                     /\ Len(OpenRecords') = Len(OpenRecords) + 1
                     /\ OpenRecords'[Len(OpenRecords')].trialIndex = currentTrialIndex
                     /\ OpenRecords'[Len(OpenRecords')].wasTimeout)]_vars

\* The third trial of a task waits for its answer with its timer pending,
\* after the first trial ended by timeout and the second by selection.
C26_Witness ==
    /\ RunningScored
    /\ currentTrialIndex = 2
    /\ timers = {CurrentTimer}
    /\ Len(OpenRecords) = 2
    /\ OpenRecords[1].wasTimeout
    /\ ~OpenRecords[2].wasTimeout

\* C27: in every trial record that is not a timeout, the reaction time is
\* the time of the response minus the presentedAt of the trial context that
\* was passed to recordResponse, whatever calls of startTrial came between.
C27_ReactionTimeFromContext ==
    \A i \in 1..Len(AllRecords) :
        ~AllRecords[i].wasTimeout =>
            AllRecords[i].reactionTime
                = <<AllRecords[i].respondedAt - AllRecords[i].presentedAt>>

\* The window of the current trial is open: its timer is pending and
\* currentTrialData is the context startTrial made for it.
WindowIsOpen ==
    /\ timers = {CurrentTimer}
    /\ currentTrialData # NULL
    /\ currentTrialData[1].trialIndex = currentTrialIndex
    /\ <<currentTrialData[1].presentedAt>> = data.itemStartTime

\* C28 as stated, from the first instructions screen on: whenever input is
\* unlocked the window of the current trial is open, and input is locked on
\* the instructions screen, while speech, flash, mask or the transition
\* pause is pending, and when the session is finished.
C28_UnlockedOnlyInWindow ==
    state # STATES.IDLE =>
        /\ ~inputLocked => WindowIsOpen
        /\ state \in {STATES.INSTRUCTIONS, STATES.FINISHED} => inputLocked
        /\ pend # "none" => inputLocked

\* C28, amended: while a task is running, whenever input is unlocked the
\* window of the current trial is open and nothing is pending; input is
\* locked while speech, flash, mask or the transition pause is pending; in
\* the other states (landing, instructions, finished) input is unlocked only
\* as long as no trial of the session has been presented.
C28_UnlockedWhileRunningOnlyInWindow ==
    /\ state = STATES.RUNNING /\ ~inputLocked =>
            WindowIsOpen /\ pend = "none" /\ trialTimeout = <<CurrentTimer>>
    /\ pend # "none" => inputLocked /\ state = STATES.RUNNING
    /\ state # STATES.RUNNING /\ ~inputLocked =>
            /\ currentTrialData = NULL
            /\ data.itemStartTime = NULL
            /\ AllRecords = <<>>
            /\ timers = {}

\* The window of a task's second trial is open, and before it input was
\* locked on the instructions screen of this, the session's second, task.
C28_Witness ==
    /\ state = STATES.RUNNING
    /\ ~inputLocked
    /\ currentTaskIndex = 1
    /\ currentTrialIndex = 1
    /\ WindowIsOpen

\* The tasks of the catalog that are scored (not excluded as warmup), in
\* catalog order.
ScoredCatalog == LET Scored(t) == ~t.isWarmup IN SelectSeq(catalog, Scored)

\* C29: when the session is finished, the session's task list is the scored
\* tasks of the catalog, each once and in catalog order, each with exactly
\* one record per trial of its definition, with trialIndex 0, 1, ..., n-1 in
\* that order, and the task index is the length of the catalog.  The trial
\* index changes only by one, in the step after a finalized trial, or back
\* to 0 when a task is started; the task index changes only by one, in the
\* step that finds the trial index past the task's last trial.
C29_FinishedSessionIsTheCatalog ==
    /\ [](state = STATES.FINISHED =>
            /\ currentTaskIndex = Len(catalog)
            /\ data.currentTask = NULL
            /\ Len(ClosedTasks) = Len(ScoredCatalog)
            /\ \A k \in 1..Len(ScoredCatalog) :
                  /\ ClosedTasks[k].taskId = ScoredCatalog[k].id
                  /\ ClosedTasks[k].taskType = ScoredCatalog[k].type
                  /\ OnePerTrial(ClosedTasks[k].trials, Len(ScoredCatalog[k].trials)))
    /\ [][currentTrialIndex' # currentTrialIndex =>
            \/ /\ currentTrialIndex' = currentTrialIndex + 1
               /\ pend = "transition"
               /\ ~currentTask[1].isWarmup => Len(OpenRecords) = currentTrialIndex + 1
            \/ /\ currentTrialIndex' = 0
               /\ state = STATES.INSTRUCTIONS]_vars
    /\ [][currentTaskIndex' # currentTaskIndex =>
            /\ currentTaskIndex' = currentTaskIndex + 1
            /\ currentTrialIndex' = Len(currentTask[1].trials)
            /\ currentTask[1] = catalog[currentTaskIndex + 1]]_vars

\* A finished session of the catalog (warmup, baseline_literacy): one task
\* in the list, with the three records of its three trials.
C29_Witness ==
    /\ state = STATES.FINISHED
    /\ Len(catalog) = 2
    /\ catalog[1].isWarmup
    /\ Len(ClosedTasks) = 1
    /\ ClosedTasks[1].taskId = catalog[2].id
    /\ Len(ClosedTasks[1].trials) = 3

====
